---------------------------- MODULE Spec2Model ----------------------------
(***************************************************************************)
(* A model of colordu (src/colordu.py): a wrapper around du that colours   *)
(* the size field of every output line.                                    *)
(*                                                                         *)
(* Text is modelled as a sequence of one-character strings, so that        *)
(* splitting, indexing, parsing and formatting are computed character by   *)
(* character as the Python code does.  A Python call either returns a      *)
(* value or raises an exception: operators that model functions yield      *)
(* Return(v) or Raise(exceptionName).                                      *)
(*                                                                         *)
(* A float is modelled exactly as m * 5^(-q) * 2^e (a record [m, q, e] in  *)
(* lowest terms), which represents every decimal literal and every product *)
(* with a power of 1024 without rounding.  Only math.log is approximated:  *)
(* it is computed in fixed point with LogFracBits fractional bits.         *)
(***************************************************************************)
EXTENDS Integers, Sequences, FiniteSets, TLC

VARIABLES
    pc,           \* position of the operation or of run_du
    hex_1,        \* interpolate_hex_colors: first argument
    hex_2,        \* interpolate_hex_colors: second argument
    line,         \* parse_line / add_markup: the line
    filesize,     \* get_color: the byte count
    colorscheme,  \* get_color / add_markup / run_du: the palette (or None)
    ret,          \* outcome of the last call: Return(value) or Raise(name)
    env,          \* run_du: value of the COLORDU_SCHEME environment variable
    spawned,      \* run_du: TRUE once subprocess.Popen has started du
    stdout,       \* run_du: the lines du writes to its pipe
    pos,          \* run_du: number of lines read from the pipe so far
    printed       \* run_du: the records handed to console.print, in order

vars == <<pc, hex_1, hex_2, line, filesize, colorscheme, ret, env,
          spawned, stdout, pos, printed>>

-----------------------------------------------------------------------------
(* Bounds of the model.                                                    *)

\* longest size field (text before the first tab) of an enumerated line
MaxSizeLen == 4
\* longest text after the first tab of an enumerated line
MaxItemLen == 1
\* largest decimal mantissa of an enumerated byte count
MaxMantissa == 12
\* enumerated byte counts have binary exponents in -MaxExp .. MaxExp
MaxExp == 42
\* most lines du writes in one run
MaxLines == 3
\* fractional bits of the fixed-point logarithm
LogFracBits == 16

-----------------------------------------------------------------------------
(* Python values.                                                          *)

\* info carries what an exception's message is built from
Return(v) == [kind |-> "return", val |-> v, info |-> <<>>]
Raise(e) == [kind |-> "raise", val |-> e, info |-> <<>>]
RaiseWith(e, info) == [kind |-> "raise", val |-> e, info |-> info]
Returned(r) == r.kind = "return"
Raised(r, e) == r.kind = "raise" /\ r.val = e

None == [some |-> FALSE, v |-> <<>>]
Some(x) == [some |-> TRUE, v |-> x]
NoCall == Raise("NotCalled")

Min(a, b) == IF a < b THEN a ELSE b
Max(a, b) == IF a > b THEN a ELSE b

\* int(x) of a quotient a / b with b > 0: truncation towards zero
TruncDiv(a, b) == IF a >= 0 THEN a \div b ELSE -((-a) \div b)

\* all sequences over S of length at most n
SeqsUpTo(S, n) == UNION {[1..k -> S] : k \in 0..n}

Tab == "\t"
Newline == "\n"

-----------------------------------------------------------------------------
(* Exact numbers m * 5^(-q) * 2^e.                                         *)

RECURSIVE Norm(_, _, _)
Norm(m, q, e) ==
    IF m = 0 THEN [m |-> 0, q |-> 0, e |-> 0]
    ELSE IF m % 2 = 0 THEN Norm(m \div 2, q, e + 1)
    ELSE IF q > 0 /\ m % 5 = 0 THEN Norm(m \div 5, q - 1, e)
    ELSE [m |-> m, q |-> q, e |-> e]

FromInt(n) == Norm(n, 0, 0)
\* the decimal m * 10^(-d)
FromDecimal(m, d) == Norm(m, d, -d)
NumMul(a, b) == Norm(a.m * b.m, a.q + b.q, a.e + b.e)

RECURSIVE NumPow(_, _)
NumPow(a, k) == IF k = 0 THEN FromInt(1) ELSE NumMul(a, NumPow(a, k - 1))

\* a >= b for b > 0, decided exactly by cross-multiplication; shifts of 30
\* bits or more are decided without computing the power
NumGE(a, b) ==
    LET A == a.m * 5^(b.q)
        B == b.m * 5^(a.q)
        s == a.e - b.e
    IN  IF A <= 0 THEN FALSE
        ELSE IF s >= 0
             THEN IF s >= 30 THEN TRUE ELSE A >= (B + 2^s - 1) \div 2^s
             ELSE IF -s >= 30 THEN FALSE ELSE A \div 2^(-s) >= B

IsPositive(a) == a.m > 0

-----------------------------------------------------------------------------
(* Module constants of colordu.py.                                         *)

POWER_BASE == 1024

MAX_SIZE == NumMul(FromInt(512), NumPow(FromInt(POWER_BASE), 3))

DU_UNITS == <<"K", "M", "G", "T", "P", "E", "Z", "Y", "R", "Q">>

\* 0-based position of a unit letter in DU_UNITS (enumerate)
UnitIndex(unit) == (CHOOSE i \in 1..Len(DU_UNITS) : DU_UNITS[i] = unit) - 1

UnitKeys == {DU_UNITS[i] : i \in 1..Len(DU_UNITS)}

COLORSCHEME_DISCRETE_RAINBOW ==
    <<
       <<"#", "8", "8", "2", "E", "7", "2">>,
       <<"#", "1", "9", "6", "5", "B", "0">>,
       <<"#", "7", "B", "A", "F", "D", "E">>,
       <<"#", "4", "E", "B", "2", "6", "5">>,
       <<"#", "C", "A", "E", "0", "A", "B">>,
       <<"#", "F", "7", "F", "0", "5", "6">>,
       <<"#", "E", "E", "8", "0", "2", "6">>,
       <<"#", "D", "C", "0", "5", "0", "C">>
    >>

COLORSCHEME_SMOOTH_RAINBOW ==
    <<
       <<"#", "E", "8", "E", "C", "F", "B">>,
       <<"#", "D", "D", "D", "8", "E", "F">>,
       <<"#", "D", "1", "C", "1", "E", "1">>,
       <<"#", "C", "3", "A", "8", "D", "1">>,
       <<"#", "B", "5", "8", "F", "C", "2">>,
       <<"#", "A", "7", "7", "8", "B", "4">>,
       <<"#", "9", "B", "6", "2", "A", "7">>,
       <<"#", "8", "C", "4", "E", "9", "9">>,
       <<"#", "6", "F", "4", "C", "9", "B">>,
       <<"#", "6", "0", "5", "9", "A", "9">>,
       <<"#", "5", "5", "6", "8", "B", "8">>,
       <<"#", "4", "E", "7", "9", "C", "5">>,
       <<"#", "4", "D", "8", "A", "C", "6">>,
       <<"#", "4", "E", "9", "6", "B", "C">>,
       <<"#", "5", "4", "9", "E", "B", "3">>,
       <<"#", "5", "9", "A", "5", "A", "9">>,
       <<"#", "6", "0", "A", "B", "9", "E">>,
       <<"#", "6", "9", "B", "1", "9", "0">>,
       <<"#", "7", "7", "B", "7", "7", "D">>,
       <<"#", "8", "C", "B", "C", "6", "8">>,
       <<"#", "A", "6", "B", "E", "5", "4">>,
       <<"#", "B", "E", "B", "C", "4", "8">>,
       <<"#", "D", "1", "B", "5", "4", "1">>,
       <<"#", "D", "D", "A", "A", "3", "C">>,
       <<"#", "E", "4", "9", "C", "3", "9">>,
       <<"#", "E", "7", "8", "C", "3", "5">>,
       <<"#", "E", "6", "7", "9", "3", "2">>,
       <<"#", "E", "4", "6", "3", "2", "D">>,
       <<"#", "D", "F", "4", "8", "2", "8">>,
       <<"#", "D", "A", "2", "2", "2", "2">>,
       <<"#", "B", "8", "2", "2", "1", "E">>,
       <<"#", "9", "5", "2", "1", "1", "B">>,
       <<"#", "7", "2", "1", "E", "1", "7">>,
       <<"#", "5", "2", "1", "A", "1", "3">>
    >>

COLORSCHEME_SUNSET ==
    <<
       <<"#", "3", "6", "4", "B", "9", "A">>,
       <<"#", "4", "A", "7", "B", "B", "7">>,
       <<"#", "6", "E", "A", "6", "C", "D">>,
       <<"#", "9", "8", "C", "A", "E", "1">>,
       <<"#", "C", "2", "E", "4", "E", "F">>,
       <<"#", "E", "A", "E", "C", "C", "C">>,
       <<"#", "F", "E", "D", "A", "8", "B">>,
       <<"#", "F", "D", "B", "3", "6", "6">>,
       <<"#", "F", "6", "7", "E", "4", "B">>,
       <<"#", "D", "D", "3", "D", "2", "D">>,
       <<"#", "A", "5", "0", "0", "2", "6">>
    >>

COLORSCHEME_YLORBR ==
    <<
       <<"#", "F", "F", "F", "7", "B", "C">>,
       <<"#", "F", "E", "E", "3", "9", "1">>,
       <<"#", "F", "E", "C", "4", "4", "F">>,
       <<"#", "F", "B", "9", "A", "2", "9">>,
       <<"#", "E", "C", "7", "0", "1", "4">>,
       <<"#", "C", "C", "4", "C", "0", "2">>,
       <<"#", "9", "9", "3", "4", "0", "4">>,
       <<"#", "6", "6", "2", "5", "0", "6">>
    >>

COLORSCHEME_PARTIAL_SUNSET ==
    <<
       <<"#", "F", "E", "D", "A", "8", "B">>,
       <<"#", "F", "D", "B", "3", "6", "6">>,
       <<"#", "F", "6", "7", "E", "4", "B">>,
       <<"#", "D", "D", "3", "D", "2", "D">>,
       <<"#", "A", "5", "0", "0", "2", "6">>,
       <<"#", "A", "5", "0", "0", "2", "6">>,
       <<"#", "A", "5", "0", "0", "2", "6">>,
       <<"#", "A", "5", "0", "0", "2", "6">>
    >>

\* the registry: a dict, modelled as its items in insertion order
KNOWN_COLORSCHEMES ==
    << <<"NONE", None>>,
       <<"DISCRETE_RAINBOW", Some(COLORSCHEME_DISCRETE_RAINBOW)>>,
       <<"SMOOTH_RAINBOW", Some(COLORSCHEME_SMOOTH_RAINBOW)>>,
       <<"SUNSET", Some(COLORSCHEME_SUNSET)>>,
       <<"YLORBR", Some(COLORSCHEME_YLORBR)>>,
       <<"PARTIAL_SUNSET", Some(COLORSCHEME_PARTIAL_SUNSET)>> >>

\* list(d.keys())
DictKeys(d) == [i \in 1..Len(d) |-> d[i][1]]
\* name in d
DictHas(d, name) == \E i \in 1..Len(d) : d[i][1] = name
\* d[name]
DictGet(d, name) == d[CHOOSE i \in 1..Len(d) : d[i][1] = name][2]

DEFAULT_COLORSCHEME_NAME == "SUNSET"

FALLBACK_COLOR == <<"#", "6", "6", "6", "6", "6", "6">>

\* the registered palettes that are not the disabled sentinel
Palettes ==
    {KNOWN_COLORSCHEMES[i][2].v :
        i \in {j \in 1..Len(KNOWN_COLORSCHEMES) : KNOWN_COLORSCHEMES[j][2].some}}

-----------------------------------------------------------------------------
(* get_colorscheme.                                                        *)

Unset == "<unset>"

\* os.getenv("COLORDU_SCHEME", name)
GetEnv(e, default) == IF e = Unset THEN default ELSE e

\* get_colorscheme with the lookup replaced by dict.get: an unknown name
\* yields None instead of an error
get_colorscheme_Lenient(e) ==
    LET name == GetEnv(e, DEFAULT_COLORSCHEME_NAME)
    IN  IF ~DictHas(KNOWN_COLORSCHEMES, name)
        THEN Return(None)
        ELSE Return(DictGet(KNOWN_COLORSCHEMES, name))

\* the KeyError's message is built from the requested name and the joined
\* keys of the registry
get_colorscheme(e) ==
    LET name == GetEnv(e, DEFAULT_COLORSCHEME_NAME)
    IN  IF ~DictHas(KNOWN_COLORSCHEMES, name)
        THEN RaiseWith("KeyError",
                       [name |-> name, schemes |-> DictKeys(KNOWN_COLORSCHEMES)])
        ELSE Return(DictGet(KNOWN_COLORSCHEMES, name))

-----------------------------------------------------------------------------
(* hex_to_rgb, rgb_to_hex, interpolate_hex_colors.                         *)

\* int(c, 16) of one hexadecimal digit: both cases are accepted
HexDigit(c) ==
    CASE c = "0" -> 0 [] c = "1" -> 1 [] c = "2" -> 2 [] c = "3" -> 3
      [] c = "4" -> 4 [] c = "5" -> 5 [] c = "6" -> 6 [] c = "7" -> 7
      [] c = "8" -> 8 [] c = "9" -> 9
      [] c \in {"a", "A"} -> 10 [] c \in {"b", "B"} -> 11
      [] c \in {"c", "C"} -> 12 [] c \in {"d", "D"} -> 13
      [] c \in {"e", "E"} -> 14 [] c \in {"f", "F"} -> 15

\* int(s, 16) of a string of hexadecimal digits
RECURSIVE IntBase16(_)
IntBase16(s) ==
    IF Len(s) = 1 THEN HexDigit(s[1])
    ELSE 16 * IntBase16(SubSeq(s, 1, Len(s) - 1)) + HexDigit(s[Len(s)])

\* value.lstrip("#")
RECURSIVE LStripHash(_)
LStripHash(s) ==
    IF Len(s) > 0 /\ s[1] = "#" THEN LStripHash(Tail(s)) ELSE s

hex_to_rgb(value) ==
    LET v == LStripHash(value)
    IN  <<IntBase16(SubSeq(v, 1, 2)), IntBase16(SubSeq(v, 3, 4)),
          IntBase16(SubSeq(v, 5, 6))>>

\* the digits of format code "x": lower case
LowerHexDigits ==
    <<"0", "1", "2", "3", "4", "5", "6", "7", "8", "9", "a", "b", "c", "d",
      "e", "f">>

\* format(n, "x") for n >= 0
RECURSIVE FormatHex(_)
FormatHex(n) ==
    IF n < 16 THEN <<LowerHexDigits[n + 1]>>
    ELSE Append(FormatHex(n \div 16), LowerHexDigits[(n % 16) + 1])

\* format(n, "02x"): zero-padded to width 2
FormatHex02(n) ==
    LET digits == FormatHex(n)
    IN  IF Len(digits) < 2 THEN <<"0">> \o digits ELSE digits

\* rgb_to_hex with the padding dropped (format code "x")
rgb_to_hex_NoPad(rgb) ==
    <<"#">> \o FormatHex(rgb[1]) \o FormatHex(rgb[2]) \o FormatHex(rgb[3])

rgb_to_hex(rgb) ==
    <<"#">> \o FormatHex02(rgb[1]) \o FormatHex02(rgb[2]) \o FormatHex02(rgb[3])

\* the channel mean computed without ordering the operands and with the
\* half truncated before it is added
InterpChannel_Unordered(c1, c2) == c1 + TruncDiv(c2 - c1, 2)

\* one channel of interpolate_hex_colors: order the two values, then
\* int(max(0, min(lo + (hi - lo) / 2, 255))); the true division is kept
\* exact by computing in halves
InterpChannel(c1, c2) ==
    LET lo == IF c1 < c2 THEN c1 ELSE c2
        hi == IF c1 < c2 THEN c2 ELSE c1
        twice == 2 * lo + (hi - lo)
    IN  TruncDiv(Max(0, Min(twice, 2 * 255)), 2)

interpolate_hex_colors(h1, h2) ==
    LET rgb1 == hex_to_rgb(h1)
        rgb2 == hex_to_rgb(h2)
    IN  rgb_to_hex(<<InterpChannel(rgb1[1], rgb2[1]),
                     InterpChannel(rgb1[2], rgb2[2]),
                     InterpChannel(rgb1[3], rgb2[3])>>)

-----------------------------------------------------------------------------
(* parse_line.                                                             *)

Letters ==
    {"A", "B", "C", "D", "E", "F", "G", "H", "I", "J", "K", "L", "M", "N",
     "O", "P", "Q", "R", "S", "T", "U", "V", "W", "X", "Y", "Z",
     "a", "b", "c", "d", "e", "f", "g", "h", "i", "j", "k", "l", "m", "n",
     "o", "p", "q", "r", "s", "t", "u", "v", "w", "x", "y", "z"}

\* str.isalpha of one character
IsAlpha(c) == c \in Letters

DecDigits == {"0", "1", "2", "3", "4", "5", "6", "7", "8", "9"}

DecDigit(c) ==
    CASE c = "0" -> 0 [] c = "1" -> 1 [] c = "2" -> 2 [] c = "3" -> 3
      [] c = "4" -> 4 [] c = "5" -> 5 [] c = "6" -> 6 [] c = "7" -> 7
      [] c = "8" -> 8 [] c = "9" -> 9

Chars(s) == {s[i] : i \in 1..Len(s)}

\* s.split(sep): the pieces between the occurrences of sep
RECURSIVE Split(_, _)
Split(s, sep) ==
    IF sep \notin Chars(s) THEN <<s>>
    ELSE LET i == CHOOSE k \in 1..Len(s) :
                      s[k] = sep /\ \A j \in 1..(k - 1) : s[j] # sep
         IN  <<SubSeq(s, 1, i - 1)>> \o Split(SubSeq(s, i + 1, Len(s)), sep)

\* the integer written by a string of decimal digits and points, the points
\* skipped
RECURSIVE DigitsValue(_)
DigitsValue(s) ==
    IF Len(s) = 0 THEN 0
    ELSE LET front == DigitsValue(SubSeq(s, 1, Len(s) - 1))
             c == s[Len(s)]
         IN  IF c = "." THEN front ELSE 10 * front + DecDigit(c)

\* float(s) on text made of signs, digits, points and letters: an optional
\* sign, then digits with at most one point and at least one digit; anything
\* else is a ValueError.  (Exponents, inf, nan, underscores and surrounding
\* white space need characters the enumerated size fields do not contain.)
PyFloat(s) ==
    LET signed == Len(s) > 0 /\ s[1] \in {"-", "+"}
        body == IF signed THEN Tail(s) ELSE s
        points == {i \in 1..Len(body) : body[i] = "."}
        digits == {i \in 1..Len(body) : body[i] \in DecDigits}
        wellFormed == /\ Chars(body) \subseteq DecDigits \cup {"."}
                      /\ Cardinality(points) <= 1
                      /\ Cardinality(digits) >= 1
        decimals == IF points = {} THEN 0
                    ELSE Len(body) - (CHOOSE i \in points : TRUE)
        mantissa == DigitsValue(body)
    IN  IF ~wellFormed THEN Raise("ValueError")
        ELSE Return(FromDecimal(IF signed /\ s[1] = "-" THEN -mantissa ELSE mantissa,
                                decimals))

\* UNIT_TO_SIZE built with pow(POWER_BASE, k) in place of pow(POWER_BASE, k + 1)
UNIT_TO_SIZE_OffByOne(unit) == NumPow(FromInt(POWER_BASE), UnitIndex(unit))

UNIT_TO_SIZE(unit) == NumPow(FromInt(POWER_BASE), UnitIndex(unit) + 1)

parse_line(l) ==
    IF Tab \notin Chars(l) THEN Raise("ParsingError")
    ELSE
    LET parts == Split(l, Tab) IN
    \* size, item = line.split("\t") unpacks exactly two values
    IF Len(parts) # 2 THEN Raise("ValueError")
    ELSE
    LET size == parts[1]
        item == parts[2]
    IN
    \* unit = size[-1]
    IF Len(size) = 0 THEN Raise("IndexError")
    ELSE
    LET unit == size[Len(size)] IN
    IF IsAlpha(unit)
    THEN IF unit \notin UnitKeys THEN Raise("ParsingError")
         ELSE LET unit_factor == UNIT_TO_SIZE(unit)
                  value == PyFloat(SubSeq(size, 1, Len(size) - 1))
              IN  IF ~Returned(value) THEN value
                  ELSE Return(<<size, item, NumMul(value.val, unit_factor)>>)
    ELSE LET unit_factor == FromInt(1)
             parsed == PyFloat(size)
         IN  IF ~Returned(parsed) THEN parsed
             ELSE Return(<<size, item,
                           NumMul(NumMul(parsed.val, FromInt(1024)), unit_factor)>>)

-----------------------------------------------------------------------------
(* get_color.                                                              *)

RECURSIVE FloorLog2(_)
FloorLog2(n) == IF n < 2 THEN 0 ELSE 1 + FloorLog2(n \div 2)

\* x * x for x in [1, 2) held with 27 fractional bits, computed from 14-bit
\* halves so that no intermediate exceeds 32 bits; the result is in [1, 4)
FxSquare(x) ==
    LET h == x \div 2^14
        l == x % 2^14
    IN  2 * h * h + (h * l) \div 2^12 + (l * l) \div 2^27

\* the first k fractional bits of log2(x), by repeated squaring
RECURSIVE LgBits(_, _, _)
LgBits(x, k, acc) ==
    IF k = 0 THEN acc
    ELSE LET sq == FxSquare(x)
         IN  IF sq >= 2^28 THEN LgBits(sq \div 2, k - 1, 2 * acc + 1)
             ELSE LgBits(sq, k - 1, 2 * acc)

\* floor(2^LogFracBits * log2(n)) for an integer n >= 1
Lg(n) ==
    LET k == FloorLog2(n)
    IN  k * 2^LogFracBits + LgBits(n * 2^(27 - k), LogFracBits, 0)

\* math.log of a positive number, in fixed point and to base 2: get_color
\* only uses the quotient of two logarithms, in which the base cancels
MathLog(a) == a.e * 2^LogFracBits + Lg(a.m) - Lg(5^(a.q))

\* seq[i] of a Python list: a negative index counts from the end
PyIndex(seq, i) ==
    IF 0 <= i /\ i < Len(seq) THEN Return(seq[i + 1])
    ELSE IF i < 0 /\ -i <= Len(seq) THEN Return(seq[Len(seq) + i + 1])
    ELSE Raise("IndexError")

\* the index scaled into 0 .. len - 2 instead of 0 .. len - 1
PaletteIndex_Short(size, scheme) ==
    TruncDiv(MathLog(size) * (Len(scheme) - 1), MathLog(MAX_SIZE)) - 1

\* idx = int(fraction * len(colorscheme)) - 1 with fraction = logsize / logmax,
\* for a positive size
PaletteIndex(size, scheme) ==
    LET logsize == MathLog(size)
        logmax == MathLog(MAX_SIZE)
    IN  TruncDiv(logsize * Len(scheme), logmax) - 1

get_color(size, scheme) ==
    \* math.log raises "math domain error" for a size that is not positive
    IF ~IsPositive(size) THEN Raise("ValueError")
    ELSE
    LET idx == PaletteIndex(size, scheme)
    IN  IF idx + 1 >= Len(scheme) THEN Return(FALLBACK_COLOR)
        ELSE LET c1 == PyIndex(scheme, idx)
                 c2 == PyIndex(scheme, idx + 1)
             IN  IF ~Returned(c1) THEN c1
                 ELSE IF ~Returned(c2) THEN c2
                 ELSE Return(interpolate_hex_colors(c1.val, c2.val))

-----------------------------------------------------------------------------
(* add_markup.                                                             *)

\* f"[{color}]{size}[/{color}]\t{item}"
Markup(color, size, item) ==
    <<"[">> \o color \o <<"]">> \o size \o <<"[", "/">> \o color
        \o <<"]", Tab>> \o item

add_markup(l, scheme) ==
    LET parsed == parse_line(l) IN
    IF Raised(parsed, "ParsingError") THEN Return(l)
    ELSE IF ~Returned(parsed) THEN parsed
    ELSE LET color == get_color(parsed.val[3], scheme)
         IN  IF ~Returned(color) THEN color
             ELSE Return(Markup(color.val, parsed.val[1], parsed.val[2]))

-----------------------------------------------------------------------------
(* The inputs the operations are applied to.                               *)

SizeChars == {"0", "1", "2", ".", "-", "K", "M", "B"}
ItemChars == {"/", Tab}

\* every line is a size field without a tab, followed by nothing or by a
\* tab and the rest of the line
Tails == {<<>>} \cup {<<Tab>> \o r : r \in SeqsUpTo(ItemChars, MaxItemLen)}
Lines == {s \o t : s \in SeqsUpTo(SizeChars, MaxSizeLen), t \in Tails}

FileSizes ==
    {Norm(m, q, e) : m \in (-1)..MaxMantissa, q \in 0..1, e \in (-MaxExp)..MaxExp}

PaletteColors == UNION {Chars(p) : p \in Palettes} \cup {FALLBACK_COLOR}
\* the colour #rrggbb written in lower case
HexColor(r, g, b) ==
    <<"#", LowerHexDigits[(r \div 16) + 1], LowerHexDigits[(r % 16) + 1],
      LowerHexDigits[(g \div 16) + 1], LowerHexDigits[(g % 16) + 1],
      LowerHexDigits[(b \div 16) + 1], LowerHexDigits[(b % 16) + 1]>>
SweepColors == {HexColor(v, 255 - v, (7 * v) % 256) : v \in 0..255}
Colors == PaletteColors \cup SweepColors

\* a byte that is not valid UTF-8
InvalidByte == "<0xFF>"

\* lines du can write: sizes in blocks and with a unit, an empty file, a
\* path that holds a tab, the second half of a path that holds a newline,
\* and a path that is not UTF-8
DuLines ==
    { <<"1", "2", Tab, "/", Newline>>,
      <<"1", "K", Tab, "/", Newline>>,
      <<"0", Tab, "/", Newline>>,
      <<"1", Tab, "/", Tab, "/", Newline>>,
      <<"/", Newline>>,
      <<"1", Tab, "/", InvalidByte, Newline>> }

EnvValues == {Unset, "BOGUS", "sunset"} \cup {KNOWN_COLORSCHEMES[i][1] : i \in 1..Len(KNOWN_COLORSCHEMES)}

-----------------------------------------------------------------------------
(* Specifications of the pure functions: Init draws the arguments, the     *)
(* action applies the function and records its outcome in ret.             *)

InitInterp ==
    /\ pc = "interpolate_hex_colors"
    /\ hex_1 \in Colors /\ hex_2 \in Colors
    /\ line = <<>> /\ filesize = FromInt(0) /\ colorscheme = None
    /\ ret = NoCall /\ env = Unset /\ spawned = FALSE /\ stdout = <<>>
    /\ pos = 0 /\ printed = <<>>

CallInterpolate ==
    /\ pc = "interpolate_hex_colors"
    /\ ret' = Return(interpolate_hex_colors(hex_1, hex_2))
    /\ pc' = "returned"
    /\ UNCHANGED <<hex_1, hex_2, line, filesize, colorscheme, env, spawned,
                   stdout, pos, printed>>

NextInterp == CallInterpolate
SpecInterp == InitInterp /\ [][NextInterp]_vars

InitColor ==
    /\ pc = "get_color"
    /\ filesize \in FileSizes
    /\ colorscheme \in {Some(p) : p \in Palettes}
    /\ hex_1 = <<>> /\ hex_2 = <<>> /\ line = <<>>
    /\ ret = NoCall /\ env = Unset /\ spawned = FALSE /\ stdout = <<>>
    /\ pos = 0 /\ printed = <<>>

CallGetColor ==
    /\ pc = "get_color"
    /\ ret' = get_color(filesize, colorscheme.v)
    /\ pc' = IF Returned(ret') THEN "returned" ELSE "raised"
    /\ UNCHANGED <<hex_1, hex_2, line, filesize, colorscheme, env, spawned,
                   stdout, pos, printed>>

NextColor == CallGetColor
SpecColor == InitColor /\ [][NextColor]_vars

InitParse ==
    /\ pc = "parse_line"
    /\ line \in Lines
    /\ hex_1 = <<>> /\ hex_2 = <<>> /\ filesize = FromInt(0)
    /\ colorscheme = None /\ ret = NoCall /\ env = Unset /\ spawned = FALSE
    /\ stdout = <<>> /\ pos = 0 /\ printed = <<>>

CallParseLine ==
    /\ pc = "parse_line"
    /\ ret' = parse_line(line)
    /\ pc' = IF Returned(ret') THEN "returned" ELSE "raised"
    /\ UNCHANGED <<hex_1, hex_2, line, filesize, colorscheme, env, spawned,
                   stdout, pos, printed>>

NextParse == CallParseLine
SpecParse == InitParse /\ [][NextParse]_vars

InitMarkup ==
    /\ pc = "add_markup"
    /\ line \in Lines
    /\ colorscheme \in {Some(p) : p \in Palettes}
    /\ hex_1 = <<>> /\ hex_2 = <<>> /\ filesize = FromInt(0)
    /\ ret = NoCall /\ env = Unset /\ spawned = FALSE /\ stdout = <<>>
    /\ pos = 0 /\ printed = <<>>

CallAddMarkup ==
    /\ pc = "add_markup"
    /\ ret' = add_markup(line, colorscheme.v)
    /\ pc' = IF Returned(ret') THEN "returned" ELSE "raised"
    /\ UNCHANGED <<hex_1, hex_2, line, filesize, colorscheme, env, spawned,
                   stdout, pos, printed>>

NextMarkup == CallAddMarkup
SpecMarkup == InitMarkup /\ [][NextMarkup]_vars

-----------------------------------------------------------------------------
(* run_du.                                                                 *)

\* line.decode("utf-8")
Decode(bytes) ==
    IF InvalidByte \in Chars(bytes) THEN Raise("UnicodeDecodeError")
    ELSE Return(bytes)

Init ==
    /\ pc = "get_colorscheme"
    /\ env \in EnvValues
    /\ hex_1 = <<>> /\ hex_2 = <<>> /\ line = <<>>
    /\ filesize = FromInt(0) /\ colorscheme = None /\ ret = NoCall
    /\ spawned = FALSE /\ stdout = <<>> /\ pos = 0 /\ printed = <<>>

\* colorscheme = get_colorscheme(): a KeyError ends run_du
GetColorscheme ==
    /\ pc = "get_colorscheme"
    /\ LET r == get_colorscheme(env)
       IN  IF Returned(r)
           THEN /\ colorscheme' = r.val
                /\ pc' = "Popen"
                /\ ret' = ret
           ELSE /\ ret' = r
                /\ pc' = "raised"
                /\ colorscheme' = colorscheme
    /\ UNCHANGED <<hex_1, hex_2, line, filesize, env, spawned, stdout, pos,
                   printed>>

\* p = subprocess.Popen(cmd, stdout=subprocess.PIPE): du starts and what it
\* will write is fixed; with stdout=PIPE, p.stdout is never None
Popen ==
    /\ pc = "Popen"
    /\ \E out \in SeqsUpTo(DuLines, MaxLines) : stdout' = out
    /\ spawned' = TRUE
    /\ pc' = "readline"
    /\ UNCHANGED <<hex_1, hex_2, line, filesize, colorscheme, ret, env, pos,
                   printed>>

\* p.stdout.readline() yields the next line, which is then decoded
ReadLine ==
    /\ pc = "readline"
    /\ pos < Len(stdout)
    /\ pos' = pos + 1
    /\ LET strline == Decode(stdout[pos + 1])
       IN  IF Returned(strline)
           THEN /\ line' = strline.val
                /\ pc' = "print"
                /\ ret' = ret
           ELSE /\ ret' = strline
                /\ pc' = "raised"
                /\ line' = line
    /\ UNCHANGED <<hex_1, hex_2, filesize, colorscheme, env, spawned, stdout,
                   printed>>

\* p.stdout.readline() yields b"" at the end of du's output: the loop ends
ReadEof ==
    /\ pc = "readline"
    /\ pos = Len(stdout)
    /\ pc' = "done"
    /\ UNCHANGED <<hex_1, hex_2, line, filesize, colorscheme, ret, env,
                   spawned, stdout, pos, printed>>

\* console.print(add_markup(strline, colorscheme), end="") or, with the
\* scheme NONE, console.print(strline, end="")
PrintLine ==
    /\ pc = "print"
    /\ LET r == IF colorscheme.some THEN add_markup(line, colorscheme.v)
                ELSE Return(line)
       IN  IF Returned(r)
           THEN /\ printed' = Append(printed, r.val)
                /\ pc' = "readline"
                /\ ret' = ret
           ELSE /\ ret' = r
                /\ pc' = "raised"
                /\ printed' = printed
    /\ UNCHANGED <<hex_1, hex_2, line, filesize, colorscheme, env, spawned,
                   stdout, pos>>

Next == GetColorscheme \/ Popen \/ ReadLine \/ ReadEof \/ PrintLine

Spec == Init /\ [][Next]_vars

-----------------------------------------------------------------------------
(* Properties of add_markup and parse_line.                                *)

\* the text before the first tab of a line, and the text after it
FirstField(l) ==
    SubSeq(l, 1, (CHOOSE k \in 1..Len(l) :
                      l[k] = Tab /\ \A j \in 1..(k - 1) : l[j] # Tab) - 1)
AfterFirstTab(l) == SubSeq(l, Len(FirstField(l)) + 2, Len(l))

\* C1: add_markup returns a string for every line and every palette and
\* never raises; a line whose size field cannot be decoded is returned
\* unchanged.
C1_AddMarkupNeverRaises ==
    pc # "add_markup" =>
        /\ Returned(ret)
        /\ ~Returned(parse_line(line)) => ret.val = line

\* n * 2^k for an exact number n
Scaled(n, k) == Norm(n.m, n.q, n.e + k)

\* the multiplier of a unit letter is strictly larger than that of every
\* letter before it in the unit alphabet
UnitMultipliersIncrease ==
    \A i, j \in 1..Len(DU_UNITS) :
        i < j => /\ NumGE(UNIT_TO_SIZE(DU_UNITS[j]), UNIT_TO_SIZE(DU_UNITS[i]))
                 /\ ~NumGE(UNIT_TO_SIZE(DU_UNITS[i]), UNIT_TO_SIZE(DU_UNITS[j]))

\* C2: for every line parse_line accepts, a size field ending in the unit
\* letter at position i of the unit alphabet gives n * 1024^(i+1) bytes, a
\* size field without a trailing letter gives n * 1024 bytes, and the
\* multiplier strictly increases with the unit's position.
C2_ByteCount ==
    /\ UnitMultipliersIncrease
    /\ pc = "returned" =>
           LET size == FirstField(line)
               last == size[Len(size)]
           IN  IF IsAlpha(last)
               THEN \E i \in 0..(Len(DU_UNITS) - 1) :
                        /\ DU_UNITS[i + 1] = last
                        /\ ret.val[3] =
                               Scaled(PyFloat(SubSeq(size, 1, Len(size) - 1)).val,
                                      10 * (i + 1))
               ELSE ret.val[3] = Scaled(PyFloat(size).val, 10)

\* parse_line has accepted "2M<TAB>/" as 2 * 1024^2 bytes
C2_Witness ==
    /\ pc = "returned"
    /\ line = <<"2", "M", Tab, "/">>
    /\ ret.val[3] = FromInt(2 * 1024 * 1024)

\* C6: for every line with at least one tab whose size field parses,
\* add_markup returns "[c]" + SizeToken + "[/c]" + TAB + ItemLabel, where
\* SizeToken is the text before the first tab, ItemLabel is the whole rest of
\* the line after the first tab, and c is the colour get_color gives.
C6_FieldsVerbatim ==
    (pc # "add_markup" /\ Tab \in Chars(line)) =>
        LET size == FirstField(line)
            item == AfterFirstTab(line)
            decoded == parse_line(size \o <<Tab>>)
        IN  Returned(decoded) =>
                LET c == get_color(decoded.val[3], colorscheme.v)
                IN  Returned(c) => ret = Return(Markup(c.val, size, item))

-----------------------------------------------------------------------------
(* Properties of get_color.                                                *)

\* C3: for a byte count that is zero or negative, get_color returns the
\* fallback colour and does not raise.
C3_NonPositiveIsFallback ==
    (pc # "get_color" /\ ~IsPositive(filesize)) => ret = Return(FALLBACK_COLOR)

\* C4: whenever the computed palette index is negative, it is clamped to 0:
\* the colour returned is interpolate(palette[0], palette[1]).
C4_NegativeIndexClamped ==
    (pc # "get_color" /\ IsPositive(filesize)
        /\ PaletteIndex(filesize, colorscheme.v) < 0) =>
        ret = Return(interpolate_hex_colors(colorscheme.v[1], colorscheme.v[2]))

\* C5: for every palette and every byte count b >= MAX_SIZE, b = MAX_SIZE
\* included, index + 1 >= paletteLength and get_color returns the fallback
\* colour.
C5_AtOrAboveMaxIsFallback ==
    (pc # "get_color" /\ NumGE(filesize, Scaled(FromInt(512), 30))) =>
        /\ PaletteIndex(filesize, colorscheme.v) + 1 >= Len(colorscheme.v)
        /\ ret = Return(FALLBACK_COLOR)

\* get_color has been applied to exactly MAX_SIZE and gave the fallback
C5_Witness ==
    /\ pc = "returned"
    /\ filesize = Scaled(FromInt(512), 30)
    /\ filesize = MAX_SIZE
    /\ ret = Return(FALLBACK_COLOR)

-----------------------------------------------------------------------------
(* Properties of interpolate_hex_colors.                                   *)

\* str.lower of one character of a colour
LowerChar(c) ==
    CASE c = "A" -> "a" [] c = "B" -> "b" [] c = "C" -> "c" [] c = "D" -> "d"
      [] c = "E" -> "e" [] c = "F" -> "f" [] OTHER -> c
Lower(s) == [i \in 1..Len(s) |-> LowerChar(s[i])]

\* C9 as stated: interpolate_hex_colors(a, a) == a for every colour in
\* hex-string form, the upper-case palette entries included.
C9_SameStringBack ==
    (pc = "returned" /\ hex_1 = hex_2) => ret.val = hex_1

\* C9, amended: interpolate_hex_colors(a, a) is a with its hex digits in
\* lower case, so it has the channel values of a.
C9_SameColourLowerCase ==
    (pc = "returned" /\ hex_1 = hex_2) =>
        /\ ret.val = Lower(hex_1)
        /\ hex_to_rgb(ret.val) = hex_to_rgb(hex_1)

\* the palette entry #A50026 interpolated with itself gave #a50026
C9_Witness ==
    /\ pc = "returned"
    /\ hex_1 = <<"#", "A", "5", "0", "0", "2", "6">>
    /\ hex_2 = hex_1
    /\ ret.val = <<"#", "a", "5", "0", "0", "2", "6">>

\* C10: interpolate_hex_colors(a, b) == interpolate_hex_colors(b, a), and
\* each channel of the result is floor(low + (high - low) / 2) of the two
\* ordered channel values, hence within [0, 255].
C10_Commutative ==
    pc = "returned" =>
        /\ ret.val = interpolate_hex_colors(hex_2, hex_1)
        /\ \A k \in 1..3 :
               LET x == hex_to_rgb(hex_1)[k]
                   y == hex_to_rgb(hex_2)[k]
                   low == Min(x, y)
                   high == Max(x, y)
                   got == hex_to_rgb(ret.val)[k]
               IN  /\ got = low + ((high - low) \div 2)
                   /\ got \in 0..255

\* the hottest and the coolest SUNSET entries, first argument the larger in
\* the red channel, gave #6d2560
C10_Witness ==
    /\ pc = "returned"
    /\ hex_1 = <<"#", "A", "5", "0", "0", "2", "6">>
    /\ hex_2 = <<"#", "3", "6", "4", "B", "9", "A">>
    /\ ret.val = <<"#", "6", "d", "2", "5", "6", "0">>

-----------------------------------------------------------------------------
(* Properties of run_du.                                                   *)

\* C7: run_du prints exactly one record per line du wrote, in the order
\* read; a line whose size field cannot be decoded is printed unchanged and
\* does not stop the lines after it from being printed.  Stated for output
\* of du that is valid UTF-8, as what holds once run_du has ended.
C7_EveryLinePrinted ==
    /\ Len(printed) <= pos
    /\ (/\ spawned
        /\ pc \in {"done", "raised"}
        /\ \A i \in 1..Len(stdout) : Returned(Decode(stdout[i]))) =>
           /\ Len(printed) = Len(stdout)
           /\ \A i \in 1..Len(stdout) :
                  ~Returned(parse_line(stdout[i])) => printed[i] = stdout[i]

\* C8: when the requested scheme is not a key of the registry,
\* get_colorscheme fails with an error that lists every valid scheme name,
\* before du is spawned and before any line is read or printed.
C8_UnknownSchemeFailsFirst ==
    LET name == GetEnv(env, DEFAULT_COLORSCHEME_NAME) IN
    ~(\E i \in 1..Len(KNOWN_COLORSCHEMES) : KNOWN_COLORSCHEMES[i][1] = name) =>
        /\ pc \in {"get_colorscheme", "raised"}
        /\ ~spawned /\ stdout = <<>> /\ pos = 0 /\ printed = <<>>
        /\ pc = "raised" =>
               /\ Raised(ret, "KeyError")
               /\ ret.info.name = name
               /\ \A i \in 1..Len(KNOWN_COLORSCHEMES) :
                      \E j \in 1..Len(ret.info.schemes) :
                          ret.info.schemes[j] = KNOWN_COLORSCHEMES[i][1]

\* run_du has failed on the scheme name BOGUS
C8_Witness ==
    /\ pc = "raised"
    /\ env = "BOGUS"
    /\ Raised(ret, "KeyError")
    /\ ~spawned

=============================================================================
